---------------------------- MODULE Spec2Model ----------------------------
(***************************************************************************)
(* Model of libevmasm/Inliner.cpp: the block extraction                    *)
(* (determineInlinableBlocks), the cost decision                           *)
(* (shouldInlineFullFunctionBody, shouldInline) and the rewrite loop       *)
(* (optimise).                                                             *)
(*                                                                         *)
(* Integers of the source (unsigned, uint64_t, u256, bigint) are modelled  *)
(* as little-endian sequences of base-256 digits without trailing zeros,   *)
(* so that the 32-bit and 64-bit wrap-around of the source's fixed-width   *)
(* types is computed exactly.                                              *)
(***************************************************************************)
EXTENDS Integers, Sequences, FiniteSets, TLC

-----------------------------------------------------------------------------
(* Exact non-negative integers as digit sequences.                         *)

Base == 256

RECURSIVE Norm(_)
Norm(s) == IF s = <<>> THEN <<>>
           ELSE IF s[Len(s)] = 0 THEN Norm(SubSeq(s, 1, Len(s) - 1))
           ELSE s

RECURSIVE FromNat(_)
FromNat(n) == IF n = 0 THEN <<>> ELSE <<n % Base>> \o FromNat(n \div Base)

RECURSIVE AddC(_, _, _)
AddC(a, b, c) ==
    IF a = <<>> /\ b = <<>>
    THEN (IF c = 0 THEN <<>> ELSE <<c>>)
    ELSE LET x == IF a = <<>> THEN 0 ELSE Head(a)
             y == IF b = <<>> THEN 0 ELSE Head(b)
             s == x + y + c
         IN  <<s % Base>> \o AddC(IF a = <<>> THEN <<>> ELSE Tail(a),
                                  IF b = <<>> THEN <<>> ELSE Tail(b),
                                  s \div Base)

BigAdd(a, b) == AddC(a, b, 0)

RECURSIVE MulDigit(_, _, _)
MulDigit(a, d, c) ==
    IF a = <<>>
    THEN (IF c = 0 THEN <<>> ELSE <<c>>)
    ELSE LET p == Head(a) * d + c
         IN  <<p % Base>> \o MulDigit(Tail(a), d, p \div Base)

RECURSIVE BigMul(_, _)
BigMul(a, b) ==
    IF a = <<>> \/ b = <<>> THEN <<>>
    ELSE LET rest == BigMul(a, Tail(b))
         IN  Norm(BigAdd(MulDigit(a, Head(b), 0),
                         IF rest = <<>> THEN <<>> ELSE <<0>> \o rest))

RECURSIVE BigLess(_, _)
BigLess(a, b) ==
    IF Len(a) # Len(b) THEN Len(a) < Len(b)
    ELSE IF a = <<>> THEN FALSE
    ELSE IF a[Len(a)] # b[Len(b)] THEN a[Len(a)] < b[Len(b)]
    ELSE BigLess(SubSeq(a, 1, Len(a) - 1), SubSeq(b, 1, Len(b) - 1))

BigGreater(a, b) == BigLess(b, a)

\* The value modulo 256^digits: what a fixed-width unsigned type keeps.
Wrap(a, digits) ==
    Norm(SubSeq(a, 1, IF Len(a) < digits THEN Len(a) ELSE digits))

U32Digits == 4
U64Digits == 8

AllOnes(digits) == [i \in 1..digits |-> Base - 1]

RECURSIVE SubOne(_)
SubOne(a) == IF Head(a) > 0 THEN <<Head(a) - 1>> \o Tail(a)
             ELSE <<Base - 1>> \o SubOne(Tail(a))

\* Dec64 with the decrement done twice.
Dec64Twice(a) ==
    IF a = <<>> THEN AllOnes(U64Digits)
    ELSE LET b == Norm(SubOne(a))
         IN  IF b = <<>> THEN AllOnes(U64Digits) ELSE Norm(SubOne(b))

\* ++x and --x on a uint64_t.
Inc64(a) == Wrap(BigAdd(a, <<1>>), U64Digits)
Dec64(a) == IF a = <<>> THEN AllOnes(U64Digits) ELSE Norm(SubOne(a))


-----------------------------------------------------------------------------
(* Assembly items.  `data' is the tag of a Tag or PushTag; for a Push it    *)
(* is the number of bytes of the pushed constant.  `jt' is the jump type    *)
(* of an Operation, which operator== of AssemblyItem does not compare.      *)

JumpTypes == {"Ordinary", "IntoFunction", "OutOfFunction"}

Tag(l)     == [type |-> "Tag", data |-> l, instr |-> "NONE", jt |-> "Ordinary"]
PushTag(l) == [type |-> "PushTag", data |-> l, instr |-> "NONE", jt |-> "Ordinary"]
Jump(j)    == [type |-> "Operation", data |-> 0, instr |-> "JUMP", jt |-> j]
Stop       == [type |-> "Operation", data |-> 0, instr |-> "STOP", jt |-> "Ordinary"]
Push32     == [type |-> "Push", data |-> 32, instr |-> "NONE", jt |-> "Ordinary"]

\* _item == Instruction::JUMP
IsJump(item) == item.type = "Operation" /\ item.instr = "JUMP"

\* item == AssemblyItem{PushTag, _tag}
IsPushTagOf(item, tag) == item.type = "PushTag" /\ item.data = tag

\* AssemblyItem::setJumpType
setJumpType(item, j) == [item EXCEPT !.jt = j]

\* SemanticInformation::breaksCSEAnalysisBlock(item, false): a Tag and every
\* operation with side effects end a block; pushes do not.
breaksCSEAnalysisBlock(item) ==
    \/ item.type = "Tag"
    \/ item.type = "Operation" /\ item.instr \in {"JUMP", "STOP"}

\* AssemblyItem::bytesRequired(_addressLength)
bytesRequired(item, addressLength) ==
    CASE item.type = "Operation" -> 1
      [] item.type = "Tag"       -> 1
      [] item.type = "PushTag"   -> 1 + addressLength
      [] item.type = "Push"      -> 1 + item.data

\* GasMeter::estimateMax(item, false).value for the items of the two patterns.
GasJumpdest == 1
GasVeryLow == 3
GasMid == 8
estimateMax(item) ==
    CASE item.type = "Tag"                     -> GasJumpdest
      [] item.type \in {"PushTag", "Push"}     -> GasVeryLow
      [] IsJump(item)                          -> GasMid
      [] OTHER                                 -> 0

\* GasMeter::dataGas(_length, _inCreation, _evmVersion): gas per byte of code.
TxDataNonZeroGas == 16
CreateDataGas == 200
dataGas(length, inCreation) ==
    BigMul(length, FromNat(IF inCreation THEN TxDataNonZeroGas ELSE CreateDataGas))

-----------------------------------------------------------------------------
(* isInlineCandidate and determineInlinableBlocks.                          *)

\* isInlineCandidate without the loop of lines 55-57.
isInlineCandidateNoSelfCheck(_tag, _items) ==
    IF Len(_items) = 0
    THEN [threw |-> TRUE, result |-> FALSE]
    ELSE [threw |-> FALSE, result |-> IsJump(_items[Len(_items)])]

\* threw: the assertThrow on an empty block; result: the returned bool.
isInlineCandidate(_tag, _items) ==
    IF Len(_items) = 0
    THEN [threw |-> TRUE, result |-> FALSE]
    ELSE [threw  |-> FALSE,
          result |-> /\ IsJump(_items[Len(_items)])
                     /\ \A i \in 1..Len(_items) : ~IsPushTagOf(_items[i], _tag)]

\* slice(*lastTag + 1, index): the item that ends the block is left out.
SliceWithoutLast(_items, from, to) == SubSeq(_items, from + 1, to - 1)

\* slice(*lastTag, index + 1): the block starts at its Tag.
SliceFromTag(_items, from, to) == SubSeq(_items, from, to)

\* ranges::views::slice(from, to) with the source's 0-based, half-open bounds,
\* on a sequence indexed from 1.
Slice(_items, from, to) == SubSeq(_items, from + 1, to)

\* std::map: a function whose domain is the set of keys present.
Put(map, key, value) ==
    [k \in DOMAIN map \cup {key} |-> IF k = key THEN value ELSE map[k]]

EmptyMap == [k \in {} |-> 0]

ScanInit ==
    [inlinableBlockItems |-> EmptyMap, numPushTags |-> EmptyMap,
     lastTag |-> -1, threw |-> FALSE]

\* One iteration of the loop of determineInlinableBlocks; index is 0-based and
\* lastTag = -1 is the empty optional.
ScanStep(st, _items, index) ==
    LET item == _items[index + 1]
        num  == IF item.type = "PushTag"
                THEN Put(st.numPushTags, item.data,
                         Inc64(IF item.data \in DOMAIN st.numPushTags
                               THEN st.numPushTags[item.data] ELSE <<>>))
                ELSE st.numPushTags
        closes == st.lastTag # -1 /\ breaksCSEAnalysisBlock(item)
        block == Slice(_items, st.lastTag + 1, index + 1)
        tag   == _items[st.lastTag + 1].data
        cand  == isInlineCandidate(tag, block)
        blocks == IF closes /\ cand.result
                  THEN Put(st.inlinableBlockItems, tag, block)
                  ELSE st.inlinableBlockItems
        last1 == IF closes THEN -1 ELSE st.lastTag
    IN  IF st.threw THEN st
        ELSE [inlinableBlockItems |-> blocks,
              numPushTags |-> num,
              lastTag |-> IF item.type = "Tag" THEN index ELSE last1,
              threw |-> closes /\ cand.threw]

RECURSIVE ScanUpTo(_, _)
ScanUpTo(_items, n) ==
    IF n = 0 THEN ScanInit ELSE ScanStep(ScanUpTo(_items, n - 1), _items, n - 1)

\* determineInlinableBlocks keeping the tags that are never pushed.
determineInlinableBlocksKeepAll(_items) ==
    LET st == ScanUpTo(_items, Len(_items))
    IN  [threw  |-> st.threw,
         result |-> [tag \in DOMAIN st.inlinableBlockItems |->
                        [items |-> st.inlinableBlockItems[tag],
                         pushTagCount |-> IF tag \in DOMAIN st.numPushTags
                                          THEN st.numPushTags[tag] ELSE <<>>]]]

determineInlinableBlocks(_items) ==
    LET st == ScanUpTo(_items, Len(_items))
    IN  [threw  |-> st.threw,
         result |-> [tag \in DOMAIN st.inlinableBlockItems \cap DOMAIN st.numPushTags |->
                        [items |-> st.inlinableBlockItems[tag],
                         pushTagCount |-> st.numPushTags[tag]]]]

-----------------------------------------------------------------------------
(* Cost accounting.  A range of items is given run-length encoded, as a     *)
(* sequence of [n, item] standing for n consecutive copies of item.         *)

Runs(_items) == [i \in 1..Len(_items) |-> [n |-> <<1>>, item |-> _items[i]]]

\* ranges::views::drop_last(_block, 1)
drop_last(runs) ==
    LET k == Len(runs)
    IN  IF k = 0 THEN runs
        ELSE IF runs[k].n = <<1>> THEN SubSeq(runs, 1, k - 1)
        ELSE [runs EXCEPT ![k].n = Norm(SubOne(runs[k].n))]

\* ranges::accumulate(..., 0u): the accumulator is an unsigned int.
RECURSIVE codeSize(_)
codeSize(runs) ==
    IF runs = <<>> THEN <<>>
    ELSE LET k == Len(runs)
         IN  Wrap(BigAdd(codeSize(SubSeq(runs, 1, k - 1)),
                         BigMul(runs[k].n, FromNat(bytesRequired(runs[k].item, 2)))),
                  U32Digits)

U256Digits == 32

\* The sum of estimateMax over the range, a u256.
RECURSIVE executionCost(_)
executionCost(_items) ==
    IF _items = <<>> THEN <<>>
    ELSE Wrap(BigAdd(executionCost(Tail(_items)), FromNat(estimateMax(Head(_items)))),
              U256Digits)

uninlinedCallSitePattern == <<PushTag(0), PushTag(0), Jump("Ordinary"), Tag(0)>>
uninlinedFunctionPattern == <<Tag(0), Jump("Ordinary")>>

Mul64(a, b) == Wrap(BigMul(a, b), U64Digits)
Add64(a, b) == Wrap(BigAdd(a, b), U64Digits)

\* Lines 147-148, 152 and 153: the costs of the two static patterns.
patternExecutionCost ==
    Wrap(BigAdd(executionCost(uninlinedCallSitePattern),
                executionCost(uninlinedFunctionPattern)), U256Digits)
callSitePatternSize == codeSize(Runs(uninlinedCallSitePattern))
functionPatternSize == codeSize(Runs(uninlinedFunctionPattern))

\* InlineDecision with the body left out of the uninlined deposit cost.
InlineDecisionNoBody(functionBodySize, _pushTagCount, runs, isCreation) ==
    LET uninlinedExecutionCost ==
            Wrap(BigMul(_pushTagCount, patternExecutionCost), U256Digits)
        uninlinedDepositCost ==
            dataGas(Add64(Mul64(_pushTagCount, callSitePatternSize),
                          functionPatternSize),
                    isCreation)
        inlinedDepositCost ==
            dataGas(Mul64(_pushTagCount, functionBodySize), isCreation)
    IN  BigGreater(BigAdd(BigMul(runs, uninlinedExecutionCost), uninlinedDepositCost),
                   inlinedDepositCost)

\* Lines 126-167, from the size of the body on.
InlineDecision(functionBodySize, _pushTagCount, runs, isCreation) ==
    LET numberOfCalls == _pushTagCount
        numberOfCallSites == _pushTagCount
        uninlinedExecutionCost ==
            Wrap(BigMul(numberOfCalls, patternExecutionCost), U256Digits)
        uninlinedDepositCost ==
            dataGas(Add64(Add64(Mul64(numberOfCallSites, callSitePatternSize),
                                functionPatternSize),
                          functionBodySize),
                    isCreation)
        inlinedDepositCost ==
            dataGas(Mul64(numberOfCallSites, functionBodySize), isCreation)
    IN  BigGreater(BigAdd(BigMul(runs, uninlinedExecutionCost), uninlinedDepositCost),
                   inlinedDepositCost)

shouldInlineFullFunctionBody(_block, _pushTagCount, runs, isCreation) ==
    InlineDecision(codeSize(drop_last(_block)), _pushTagCount, runs, isCreation)

\* shouldInline without the test of the jump type of the exit jump.
shouldInlineAnyExit(_jump, _block, runs, isCreation) ==
    LET exitJump == _block.items[Len(_block.items)]
    IN  IF ~(IsJump(_jump) /\ IsJump(exitJump))
        THEN [threw |-> TRUE, result |-> "nullopt"]
        ELSE [threw  |-> FALSE,
              result |-> IF /\ _jump.jt = "IntoFunction"
                            /\ shouldInlineFullFunctionBody(Runs(_block.items),
                                   _block.pushTagCount, runs, isCreation)
                         THEN "Ordinary" ELSE "nullopt"]

\* result is "nullopt" or the jump type to give the inlined exit jump.
shouldInline(_jump, _block, runs, isCreation) ==
    LET exitJump == _block.items[Len(_block.items)]
    IN  IF ~(IsJump(_jump) /\ IsJump(exitJump))
        THEN [threw |-> TRUE, result |-> "nullopt"]
        ELSE [threw  |-> FALSE,
              result |-> IF /\ _jump.jt = "IntoFunction"
                            /\ exitJump.jt = "OutOfFunction"
                            /\ shouldInlineFullFunctionBody(Runs(_block.items),
                                   _block.pushTagCount, runs, isCreation)
                         THEN "Ordinary" ELSE "nullopt"]

-----------------------------------------------------------------------------
(* The Inliner object and one run of optimise().                            *)

VARIABLES
    m_items,          \* the assembly items, rewritten by optimise
    m_runs,           \* the expected number of executions
    m_isCreation,     \* whether the code is creation code
    pc,               \* "start", "loop", "done", "aborted" (exception), "cost"
    inlinableBlocks,  \* the local map of optimise: tag -> [items, pushTagCount]
    it,               \* position of the iterator of the loop (from 1)
    newItems,         \* the local newItems of optimise
    input,            \* history: m_items at construction
    inlinedAt,        \* history: positions of the call sites inlined so far
    query,            \* a direct call of shouldInlineFullFunctionBody
    answer            \* its result, "true" or "false"; "none" before the call

vars == <<m_items, m_runs, m_isCreation, pc, inlinableBlocks, it, newItems,
          input, inlinedAt, query, answer>>

MaxLen == 4
MaxSegs == 3

Labels == {1, 2}

\* The items of the rewritten programs; Push32 stands for every item that is
\* neither a tag, a push of a tag nor the end of a block, Stop for every
\* operation other than JUMP that ends a block.
Alphabet ==
    {Tag(l) : l \in Labels} \cup {PushTag(l) : l \in Labels}
        \cup {Jump(j) : j \in JumpTypes} \cup {Stop, Push32}

\* Every sequence of at most MaxLen items.
FreePrograms == UNION {[1..n -> Alphabet] : n \in 0..MaxLen}

\* The call idiom: functions "tag, body, return jump" and calls
\* "push tag, jump into the function".
Bodies == {<<>>, <<Push32>>} \cup {<<PushTag(l)>> : l \in Labels}

Segments ==
    {<<Tag(l)>> \o b \o <<Jump("OutOfFunction")>> : l \in Labels, b \in Bodies}
        \cup {<<PushTag(l), Jump("IntoFunction")>> : l \in Labels}

RECURSIVE Flatten(_)
Flatten(segs) == IF segs = <<>> THEN <<>> ELSE Head(segs) \o Flatten(Tail(segs))

\* Every concatenation of at most MaxSegs functions and calls.
IdiomPrograms ==
    {Flatten(segs) : segs \in UNION {[1..n -> Segments] : n \in 0..MaxSegs}}

\* m_runs and m_isCreation: with the first no function of 33 bytes pushed
\* twice is worth inlining, with the second it is when pushed twice but not
\* when pushed three times.
Configs == {[runs |-> FromNat(1), isCreation |-> TRUE],
            [runs |-> FromNat(100), isCreation |-> FALSE]}

DefaultConfig == [runs |-> FromNat(100), isCreation |-> FALSE]

NoQuery == [block |-> <<>>, pushTagCount |-> <<>>]

Init ==
    /\ \/ /\ input \in FreePrograms
          /\ m_runs = DefaultConfig.runs
          /\ m_isCreation = DefaultConfig.isCreation
       \/ /\ input \in IdiomPrograms
          /\ \E c \in Configs : m_runs = c.runs /\ m_isCreation = c.isCreation
    /\ m_items = input
    /\ pc = "start"
    /\ inlinableBlocks = EmptyMap
    /\ it = 1
    /\ newItems = <<>>
    /\ inlinedAt = <<>>
    /\ query = NoQuery
    /\ answer = "none"

\* optimise, lines 190-195: the map is computed and is not empty.
OptimiseEnter ==
    /\ pc = "start"
    /\ LET d == determineInlinableBlocks(m_items)
       IN  /\ d.threw \/ d.result # EmptyMap
           /\ pc' = IF d.threw THEN "aborted" ELSE "loop"
           /\ inlinableBlocks' = IF d.threw THEN inlinableBlocks ELSE d.result
    /\ it' = 1
    /\ newItems' = <<>>
    /\ UNCHANGED <<m_items, m_runs, m_isCreation, input, inlinedAt, query, answer>>

\* optimise, lines 192-193: nothing to inline.
OptimiseReturnEarly ==
    /\ pc = "start"
    /\ LET d == determineInlinableBlocks(m_items)
       IN  ~d.threw /\ d.result = EmptyMap
    /\ pc' = "done"
    /\ UNCHANGED <<m_items, m_runs, m_isCreation, inlinableBlocks, it, newItems,
                   input, inlinedAt, query, answer>>

\* The conditions of lines 199-203: a PushTag of a mapped tag followed by a JUMP.
AtCallSite ==
    /\ it + 1 <= Len(m_items)
    /\ m_items[it].type = "PushTag"
    /\ IsJump(m_items[it + 1])
    /\ m_items[it].data \in DOMAIN inlinableBlocks

Verdict ==
    shouldInline(m_items[it + 1], inlinableBlocks[m_items[it].data],
                 m_runs, m_isCreation)

\* The inlined items are not counted.
CountNoInlinedPushes(blocks, items, n) == blocks

\* Lines 212-215: one ++ for each PushTag of a mapped tag among the first n
\* inlined items.
RECURSIVE CountInlinedPushes(_, _, _)
CountInlinedPushes(blocks, items, n) ==
    IF n = 0 THEN blocks
    ELSE LET b == CountInlinedPushes(blocks, items, n - 1)
             inlinedItem == items[n]
         IN  IF inlinedItem.type = "PushTag" /\ inlinedItem.data \in DOMAIN b
             THEN [b EXCEPT ![inlinedItem.data].pushTagCount = Inc64(@)]
             ELSE b

\* The copy without the setJumpType of line 207.
InlinedCopyAsIs(items, exitJumpType) == items

\* Lines 206-207: the copy appended to newItems, its last item retyped.
InlinedCopy(items, exitJumpType) ==
    [items EXCEPT ![Len(items)] = setJumpType(@, exitJumpType)]

\* Lines 204-220: the call site is replaced by the block.
OptimiseInline ==
    /\ pc = "loop"
    /\ it <= Len(m_items)
    /\ AtCallSite
    /\ LET tag     == m_items[it].data
           block   == inlinableBlocks[tag]
           verdict == Verdict
       IN  /\ ~verdict.threw
           /\ verdict.result # "nullopt"
           /\ newItems' = newItems \o InlinedCopy(block.items, verdict.result)
           /\ inlinableBlocks' =
                  CountInlinedPushes(
                      [inlinableBlocks EXCEPT ![tag].pushTagCount = Dec64(@)],
                      block.items, Len(block.items))
    /\ it' = it + 2
    /\ inlinedAt' = Append(inlinedAt, it)
    /\ UNCHANGED <<m_items, m_runs, m_isCreation, pc, input, query, answer>>

\* Line 222: the item is copied; an exception of shouldInline ends the run.
OptimiseCopy ==
    /\ pc = "loop"
    /\ it <= Len(m_items)
    /\ LET verdict == IF AtCallSite THEN Verdict
                      ELSE [threw |-> FALSE, result |-> "nullopt"]
       IN  /\ verdict.threw \/ verdict.result = "nullopt"
           /\ pc' = IF verdict.threw THEN "aborted" ELSE "loop"
           /\ newItems' = IF verdict.threw THEN newItems
                          ELSE Append(newItems, m_items[it])
           /\ it' = IF verdict.threw THEN it ELSE it + 1
    /\ UNCHANGED <<m_items, m_runs, m_isCreation, inlinableBlocks, input,
                   inlinedAt, query, answer>>

\* Line 225.
OptimiseFinish ==
    /\ pc = "loop"
    /\ it > Len(m_items)
    /\ m_items' = newItems
    /\ pc' = "done"
    /\ UNCHANGED <<m_runs, m_isCreation, inlinableBlocks, it, newItems, input,
                   inlinedAt, query, answer>>

Next ==
    \/ OptimiseEnter
    \/ OptimiseReturnEarly
    \/ OptimiseInline
    \/ OptimiseCopy
    \/ OptimiseFinish

Spec == Init /\ [][Next]_vars

-----------------------------------------------------------------------------
(* Direct calls of shouldInlineFullFunctionBody on blocks of any size: the  *)
(* block is bodyCount copies of a 33-byte push followed by the return jump. *)

Pow256(k) == [i \in 1..(k + 1) |-> IF i = k + 1 THEN 1 ELSE 0]

CostBodyCounts ==
    {FromNat(0), FromNat(1), FromNat(2), FromNat(100), FromNat(130150525),
     Pow256(U32Digits)}

CostPushTagCounts ==
    {FromNat(1), FromNat(2), FromNat(3), FromNat(50), Pow256(U32Digits)}

CostRuns == {FromNat(0), FromNat(1), FromNat(1000), AllOnes(U64Digits)}

CostBlock(bodyCount) ==
    <<[n |-> bodyCount, item |-> Push32],
      [n |-> <<1>>, item |-> Jump("OutOfFunction")]>>

InitCost ==
    /\ input = <<>>
    /\ m_items = <<>>
    /\ m_runs \in CostRuns
    /\ m_isCreation \in BOOLEAN
    /\ pc = "cost"
    /\ inlinableBlocks = EmptyMap
    /\ it = 1
    /\ newItems = <<>>
    /\ inlinedAt = <<>>
    /\ \E bodyCount \in CostBodyCounts, count \in CostPushTagCounts :
           query = [block |-> CostBlock(bodyCount), pushTagCount |-> count]
    /\ answer = "none"

CallShouldInlineFullFunctionBody ==
    /\ pc = "cost"
    /\ answer = "none"
    /\ answer' = IF shouldInlineFullFunctionBody(query.block, query.pushTagCount,
                                                 m_runs, m_isCreation)
                  THEN "true" ELSE "false"
    /\ UNCHANGED <<m_items, m_runs, m_isCreation, pc, inlinableBlocks, it,
                   newItems, input, inlinedAt, query>>

NextCost == CallShouldInlineFullFunctionBody

SpecCost == InitCost /\ [][NextCost]_vars

-----------------------------------------------------------------------------
(* Properties.                                                              *)

NumPushTags(items, tag) ==
    Cardinality({i \in 1..Len(items) : IsPushTagOf(items[i], tag)})

InlinedSet == {inlinedAt[i] : i \in 1..Len(inlinedAt)}

Remainder == SubSeq(input, it, Len(input))

IsTag(item) == item.type = "Tag"

\* The end of the block opened by the Tag at position t: the first later
\* item that ends a block, or the end of the program.
BlockEnd(t) ==
    LET ends == {e \in (t + 1)..Len(input) : breaksCSEAnalysisBlock(input[e])}
    IN  IF ends = {} THEN Len(input)
        ELSE CHOOSE e \in ends : \A f \in ends : e <= f

\* The input with every call site of InlinedSet before position stop replaced
\* by the block of its tag, the last jump of the copy typed Ordinary.
RECURSIVE Substituted(_, _)
Substituted(p, stop) ==
    IF p >= stop THEN <<>>
    ELSE IF p \in InlinedSet
    THEN LET items == inlinableBlocks[input[p].data].items
         IN  [k \in 1..Len(items) |->
                 IF k = Len(items) THEN Jump("Ordinary") ELSE items[k]]
             \o Substituted(p + 2, stop)
    ELSE <<input[p]>> \o Substituted(p + 1, stop)

\* C1: the output of optimise is the input with each inlined call site, a
\* PushTag and the JUMP right after it, replaced by a copy of the block of
\* the tag ending in an Ordinary jump, and every other item kept as it is
\* and in its order; the same holds of the output emitted so far.
C1_OutputIsSubstitution ==
    /\ \A p \in InlinedSet :
           /\ p + 1 <= Len(input)
           /\ input[p].type = "PushTag"
           /\ IsJump(input[p + 1])
           /\ input[p].data \in DOMAIN inlinableBlocks
    /\ pc = "loop" => newItems = Substituted(1, it)
    /\ pc = "done" => m_items = Substituted(1, Len(input) + 1)

C1_Witness ==
    /\ pc = "done"
    /\ Len(inlinedAt) >= 2
    /\ m_items # input
    /\ \E k \in 1..Len(input) : k \notin InlinedSet /\ input[k].type = "PushTag"

\* C2: at every step of the loop the pushTagCount of every mapped tag is the
\* number of PushTags of that tag in the output emitted so far plus the
\* number in the part of the input not yet visited.
C2_CountsAreLive ==
    pc = "loop" =>
        \A tag \in DOMAIN inlinableBlocks :
            inlinableBlocks[tag].pushTagCount
                = FromNat(NumPushTags(newItems, tag) + NumPushTags(Remainder, tag))

C2_Witness ==
    /\ pc = "loop"
    /\ inlinedAt # <<>>
    /\ it <= Len(input)
    /\ \E tag \in DOMAIN inlinableBlocks :
           BigLess(FromNat(NumPushTags(input, tag)), inlinableBlocks[tag].pushTagCount)

\* A visited call site of a mapped tag has a count of at least 1.
C3_VisitedSiteCounted ==
    (pc = "loop" /\ it <= Len(m_items) /\ AtCallSite)
        => inlinableBlocks[m_items[it].data].pushTagCount # <<>>

\* A count goes down only for the tag inlined by the step, and by one.
C3_DecrementStep ==
    (pc = "loop" /\ pc' = "loop") =>
        \A tag \in DOMAIN inlinableBlocks :
            IF inlinedAt' # inlinedAt /\ m_items[it].data = tag
            THEN BigAdd(inlinableBlocks'[tag].pushTagCount, <<1>>)
                     = inlinableBlocks[tag].pushTagCount
            ELSE ~BigLess(inlinableBlocks'[tag].pushTagCount,
                          inlinableBlocks[tag].pushTagCount)

\* C3: when a call site of a mapped tag is visited its pushTagCount is at
\* least 1, and a step lowers a pushTagCount only by inlining a call site of
\* that tag, and then by exactly one, without wrapping below zero.
C3_NeverNegative == [](C3_VisitedSiteCounted) /\ [][C3_DecrementStep]_vars

C3_Witness ==
    /\ pc = "loop"
    /\ Len(inlinedAt) >= 2
    /\ \E tag \in DOMAIN inlinableBlocks : inlinableBlocks[tag].pushTagCount = <<>>

\* C4: in the map returned by determineInlinableBlocks the pushTagCount of
\* every tag is the number of PushTags of that tag in the whole program,
\* which is at least 1, and a tag that is never pushed is not in the map.
C4_InitialCounts ==
    (pc = "loop" /\ it = 1) =>
        /\ \A tag \in DOMAIN inlinableBlocks :
               /\ inlinableBlocks[tag].pushTagCount = FromNat(NumPushTags(input, tag))
               /\ NumPushTags(input, tag) >= 1
        /\ \A tag \in Labels :
               NumPushTags(input, tag) = 0 => tag \notin DOMAIN inlinableBlocks

C4_Witness ==
    /\ pc = "loop"
    /\ it = 1
    /\ \E tag \in DOMAIN inlinableBlocks :
           /\ inlinableBlocks[tag].pushTagCount = FromNat(2)
           /\ \E i \in 1..Len(input) : IsTag(input[i]) /\ input[i].data = tag /\
                  \E j, k \in 1..Len(input) :
                      j < i /\ i < k /\ IsPushTagOf(input[j], tag)
                                     /\ IsPushTagOf(input[k], tag)
    /\ \E tag \in Labels \ DOMAIN inlinableBlocks :
           /\ NumPushTags(input, tag) = 0
           /\ \E i \in 1..(Len(input) - 1) :
                  input[i] = Tag(tag) /\ IsJump(input[BlockEnd(i)])

\* Every block of the input marked with the tag pushes the tag itself.
SelfReferencing(tag) ==
    /\ \E t \in 1..Len(input) : input[t] = Tag(tag)
    /\ \A t \in 1..Len(input) :
           input[t] = Tag(tag) =>
               \E i \in (t + 1)..BlockEnd(t) : IsPushTagOf(input[i], tag)

AtSelfReferencingSite ==
    /\ pc = "loop"
    /\ it + 1 <= Len(input)
    /\ input[it].type = "PushTag"
    /\ IsJump(input[it + 1])
    /\ SelfReferencing(input[it].data)

CopiesItem ==
    /\ newItems' = Append(newItems, input[it])
    /\ it' = it + 1
    /\ inlinableBlocks' = inlinableBlocks
    /\ inlinedAt' = inlinedAt

\* The map and the inlined call sites are free of self-references.
C5_NoSelfReferenceInMap ==
    /\ \A tag \in DOMAIN inlinableBlocks :
           NumPushTags(inlinableBlocks[tag].items, tag) = 0
    /\ \A p \in InlinedSet : ~SelfReferencing(input[p].data)
    /\ pc = "done" =>
           \A p \in 1..(Len(input) - 1) :
               (/\ input[p].type = "PushTag"
                /\ IsJump(input[p + 1])
                /\ SelfReferencing(input[p].data))
                   => \E k \in 1..(Len(m_items) - 1) :
                          m_items[k] = input[p] /\ m_items[k + 1] = input[p + 1]

\* At a call site of a self-referencing tag, and at its JUMP, the step copies.
C5_SelfReferenceStep ==
    (AtSelfReferencingSite \/
        (pc = "loop" /\ it > 1 /\ it <= Len(input) /\ IsJump(input[it])
            /\ input[it - 1].type = "PushTag"
            /\ SelfReferencing(input[it - 1].data)))
        => CopiesItem

\* C5: no block of the map contains a PushTag of its own tag; a call site of
\* a tag whose block pushes the tag itself is never inlined: the PushTag and
\* then the JUMP are copied to the output and no count changes.
C5_SelfReferenceExcluded ==
    [](C5_NoSelfReferenceInMap) /\ [][C5_SelfReferenceStep]_vars

C5_Witness ==
    /\ pc = "done"
    /\ \E p \in 1..(Len(input) - 1) :
           /\ input[p].type = "PushTag"
           /\ input[p + 1] = Jump("IntoFunction")
           /\ SelfReferencing(input[p].data)
           /\ input[BlockEnd(CHOOSE t \in 1..Len(input) : input[t] = Tag(input[p].data))]
                  = Jump("OutOfFunction")
           /\ \E k \in 1..(Len(m_items) - 1) :
                  m_items[k] = input[p] /\ m_items[k + 1] = input[p + 1]

\* The jump types make the call site at the iterator eligible.
Eligible ==
    /\ input[it + 1].jt = "IntoFunction"
    /\ LET items == inlinableBlocks[input[it].data].items
       IN  items[Len(items)].jt = "OutOfFunction"

\* Every inlined call site had the jump types of the call idiom.
C6_InlinedWereEligible ==
    \A p \in InlinedSet :
        /\ input[p + 1].jt = "IntoFunction"
        /\ LET items == inlinableBlocks[input[p].data].items
           IN  items[Len(items)].jt = "OutOfFunction"

\* At a call site with other jump types, and at the JUMP of a call site
\* that was copied, the step copies.
C6_IneligibleStep ==
    (pc = "loop" /\ it <= Len(input) /\
        \/ AtCallSite /\ ~Eligible
        \/ /\ it > 1
           /\ IsJump(input[it])
           /\ input[it - 1].type = "PushTag"
           /\ input[it - 1].data \in DOMAIN inlinableBlocks
           /\ Len(newItems) > 0
           /\ newItems[Len(newItems)] = input[it - 1])
        => CopiesItem

\* C6: a call site is inlined only when its jump is IntoFunction and the
\* last jump of the block is OutOfFunction; at a call site with any other
\* pair of jump types the PushTag and then the JUMP are copied to the output
\* and no count changes.
C6_OnlyCallIdiom == [](C6_InlinedWereEligible) /\ [][C6_IneligibleStep]_vars

C6_Witness ==
    /\ pc = "loop"
    /\ it >= 3
    /\ input[it - 2].type = "PushTag"
    /\ input[it - 2].data \in DOMAIN inlinableBlocks
    /\ IsJump(input[it - 1])
    /\ LET items == inlinableBlocks[input[it - 2].data].items
       IN  \/ input[it - 1].jt = "IntoFunction" /\ items[Len(items)].jt = "IntoFunction"
           \/ input[it - 1].jt = "Ordinary" /\ items[Len(items)].jt = "OutOfFunction"
    /\ Len(newItems) >= 2
    /\ newItems[Len(newItems) - 1] = input[it - 2]
    /\ newItems[Len(newItems)] = input[it - 1]

\* The decision of the formula of shouldInlineFullFunctionBody on exact
\* integers: nothing is reduced modulo a power of two.
ExactBodySize(_block) ==
    LET body == drop_last(_block)
    IN  IF body = <<>> THEN <<>>
        ELSE BigMul(body[1].n, FromNat(bytesRequired(body[1].item, 2)))

ExactDecision(bodySize, referenceCount, expectedRuns, isCreation) ==
    BigGreater(
        BigAdd(BigMul(expectedRuns, BigMul(referenceCount, patternExecutionCost)),
               dataGas(BigAdd(BigAdd(BigMul(referenceCount, callSitePatternSize),
                                     functionPatternSize),
                              bodySize), isCreation)),
        dataGas(BigMul(referenceCount, bodySize), isCreation))

\* C7: shouldInlineFullFunctionBody returns true exactly when the inequality
\* holds of the exact integers.
C7_ExactDecision ==
    answer # "none" =>
        (answer = "true") =
            ExactDecision(ExactBodySize(query.block), query.pushTagCount,
                          m_runs, m_isCreation)

\* C8: with a pushTagCount of 1 and at least one expected run,
\* shouldInlineFullFunctionBody returns true whatever the body.
C8_SingleReferenceInlined ==
    (answer # "none" /\ query.pushTagCount = <<1>> /\ m_runs # <<>>)
        => answer = "true"

C8_Witness ==
    /\ answer = "true"
    /\ query.pushTagCount = <<1>>
    /\ m_runs = <<1>>
    /\ query.block[1].n = Pow256(U32Digits)

\* C9: no run of optimise ends in the exception of one of the two
\* assertThrow: isInlineCandidate is not called on an empty block, and
\* shouldInline is called on a JUMP and a block that ends in a JUMP.
C9_NoAssertionFailure ==
    /\ pc # "aborted"
    /\ (pc = "loop" /\ it <= Len(m_items) /\ AtCallSite)
           => LET items == inlinableBlocks[m_items[it].data].items
              IN  Len(items) > 0 /\ IsJump(items[Len(items)])

C9_Witness ==
    /\ pc = "done"
    /\ Len(inlinedAt) = 1
    /\ \E i \in 1..(Len(input) - 1) : IsTag(input[i]) /\ IsJump(input[i + 1])

\* C10: no block of the map contains a Tag, and the Tags of the output are
\* the Tags of the input, in the same order.
C10_TagsPreserved ==
    /\ \A tag \in DOMAIN inlinableBlocks :
           \A i \in 1..Len(inlinableBlocks[tag].items) :
               ~IsTag(inlinableBlocks[tag].items[i])
    /\ pc = "loop" =>
           SelectSeq(newItems, IsTag) = SelectSeq(SubSeq(input, 1, it - 1), IsTag)
    /\ pc = "done" => SelectSeq(m_items, IsTag) = SelectSeq(input, IsTag)

C10_Witness ==
    /\ pc = "done"
    /\ inlinedAt # <<>>
    /\ \E i, j \in 1..Len(input) :
           i < inlinedAt[1] /\ inlinedAt[1] < j /\ IsTag(input[i]) /\ IsTag(input[j])

=============================================================================
